---- MODULE Spec2Model ----
(***************************************************************************)
(* A model of noq: the expression tree, the pattern matcher, the binding   *)
(* substitution and Rule::apply_all of src/noq.rs, and the Lexer of        *)
(* src/src/lexer.rs.                                                        *)
(*                                                                         *)
(* The rewriting functions are pure, so they are operators, computed the   *)
(* way the code computes them.  They are exercised by two harnesses:       *)
(*   SpecMatch  draws a pattern and a value, and applies pattern_match and *)
(*              substitute_bindings to them;                               *)
(*   SpecApply  draws a rule and a subject and applies Rule::apply_all.    *)
(* The Lexer is a state machine of its own, SpecLexer.                     *)
(***************************************************************************)
EXTENDS Integers, Sequences, FiniteSets, TLC

VARIABLES
    op,         \* the operation that acted last
    head,       \* Rule.head; the pattern handed to pattern_match
    body,       \* Rule.body
    subject,    \* the expression handed to apply_all; pattern_match's value
    template,   \* the expression last handed to substitute_bindings
    bnd,        \* Option<Bindings>: what pattern_match returned last
    out,        \* the Expr an operation returned, or Panic
    input,      \* the characters the Lexer was built from
    chars,      \* Lexer.chars: the characters not yet consumed
    exhausted,  \* Lexer.exhausted
    file_path,  \* Lexer.file_path
    lnum,       \* Lexer.lnum
    bol,        \* Lexer.bol
    cnum,       \* Lexer.cnum
    ret,        \* what the last Lexer::next() returned
    tokens      \* every token next() has returned so far, in order

rewriteVars == <<op, head, body, subject, template, bnd, out>>
lexerVars == <<input, chars, exhausted, file_path, lnum, bol, cnum, ret, tokens>>
vars == <<op, head, body, subject, template, bnd, out,
          input, chars, exhausted, file_path, lnum, bol, cnum, ret, tokens>>

----------------------------------------------------------------------------
(* Bounds of the harnesses. *)

\* Nodes in a pattern and in a value drawn by SpecMatch.
MaxPatSize == 3
MaxValSize == 3
\* Nodes in a rule's head, in its body and in a subject drawn by SpecApply.
MaxHeadSize == 2
MaxBodySize == 1
MaxSubjSize == 3
\* Characters in an input drawn by SpecLexer.
MaxLen == 3

\* The names expressions are built from.  Any name may stand as a Symbol
\* and as a functor.
Names == {"f", "a"}
\* The further names of the worked examples below.
ExampleNames == {"g", "b", "c", "x", "y", "h"}
AllNames == Names \cup ExampleNames

----------------------------------------------------------------------------
(* enum Expr { Sym(String), Fun(String, Vec<Expr>) } *)

Sym(name) == [k |-> "Sym", name |-> name, args |-> <<>>]
Fun(name, args) == [k |-> "Fun", name |-> name, args |-> args]

\* HashMap::get's None, and the outcome of panic!(): neither is an Expr.
Unbound == [k |-> "Unbound", name |-> "", args |-> <<>>]
Panic == [k |-> "Panic", name |-> "", args |-> <<>>]

RECURSIVE ExprsOfSize(_), ArgSeqs(_)
\* The expressions with exactly n nodes.
ExprsOfSize(n) ==
    (IF n = 1 THEN {Sym(nm) : nm \in Names} ELSE {})
    \cup {Fun(nm, as) : nm \in Names, as \in ArgSeqs(n - 1)}
\* The argument vectors whose expressions have n nodes together.
ArgSeqs(n) ==
    IF n = 0 THEN {<<>>}
    ELSE UNION {{<<e>> \o rest : e \in ExprsOfSize(j), rest \in ArgSeqs(n - j)}
                : j \in 1..n}

ExprsUpTo(n) == UNION {ExprsOfSize(j) : j \in 1..n}

\* Worked examples: <<pattern, value>> pairs for pattern_match ...
ExamplePairs ==
    { <<Fun("f", <<Sym("x"), Sym("x")>>), Fun("f", <<Sym("a"), Sym("b")>>)>>,
      <<Fun("f", <<Sym("x"), Sym("x")>>), Fun("f", <<Sym("a"), Sym("a")>>)>>,
      <<Fun("f", <<Sym("x")>>), Fun("g", <<Sym("a")>>)>>,
      <<Fun("f", <<Sym("x")>>), Fun("f", <<Sym("a"), Sym("b")>>)>>,
      <<Fun("f", <<Sym("a")>>), Fun("f", <<Sym("b")>>)>>,
      <<Fun("f", <<Sym("x"), Sym("y")>>), Fun("f", <<Sym("y"), Sym("a")>>)>> }
\* ... and <<head, body, subject>> triples for apply_all.
ExampleTriples ==
    { <<Fun("f", <<Sym("a")>>), Sym("c"), Fun("g", <<Fun("f", <<Sym("a")>>)>>)>>,
      <<Fun("g", <<Sym("x")>>), Fun("h", <<Sym("x")>>),
        Fun("g", <<Fun("f", <<Sym("a")>>)>>)>>,
      <<Fun("f", <<Sym("a")>>), Sym("c"),
        Fun("g", <<Fun("f", <<Sym("a")>>), Fun("f", <<Sym("b")>>)>>)>>,
      <<Fun("f", <<Sym("x")>>), Fun("x", <<Sym("c")>>),
        Fun("g", <<Sym("a"), Fun("f", <<Fun("h", <<>>)>>)>>)>>,
      <<Fun("f", <<Sym("x")>>), Fun("x", <<Sym("x"), Fun("x", <<Sym("c")>>)>>),
        Fun("g", <<Fun("f", <<Sym("a")>>)>>)>> }

----------------------------------------------------------------------------
(* type Bindings = HashMap<String, Expr>: a map over the names, Unbound    *)
(* where the HashMap holds no entry.                                       *)

EmptyBindings == [nm \in AllNames |-> Unbound]
Keys(bindings) == {nm \in AllNames : bindings[nm] # Unbound}

\* Option<Bindings>
Some(bindings) == [some |-> TRUE, b |-> bindings]
None == [some |-> FALSE, b |-> EmptyBindings]

----------------------------------------------------------------------------
(* fn pattern_match *)

RECURSIVE pattern_match_impl(_, _, _), match_args(_, _, _, _)
\* Mutant: a name already bound is bound again, to the later subterm.
pattern_match_impl_rebind(pattern, value, bindings) ==
    IF pattern.k = "Sym"
    THEN [ok |-> TRUE, b |-> [bindings EXCEPT ![pattern.name] = value]]
    ELSE IF value.k = "Fun"
         THEN IF pattern.name = value.name /\ Len(pattern.args) = Len(value.args)
              THEN match_args(pattern.args, value.args, 1, bindings)
              ELSE [ok |-> FALSE, b |-> bindings]
         ELSE [ok |-> FALSE, b |-> bindings]
\* Mutant: the functor names are not compared.
pattern_match_impl_anyname(pattern, value, bindings) ==
    IF pattern.k = "Sym"
    THEN IF bindings[pattern.name] # Unbound
         THEN [ok |-> bindings[pattern.name] = value, b |-> bindings]
         ELSE [ok |-> TRUE, b |-> [bindings EXCEPT ![pattern.name] = value]]
    ELSE IF value.k = "Fun"
         THEN IF Len(pattern.args) = Len(value.args)
              THEN match_args(pattern.args, value.args, 1, bindings)
              ELSE [ok |-> FALSE, b |-> bindings]
         ELSE [ok |-> FALSE, b |-> bindings]
\* Mutant: a Symbol of the pattern stands for itself, a constant.
pattern_match_impl_const(pattern, value, bindings) ==
    IF pattern.k = "Sym"
    THEN [ok |-> value = pattern, b |-> bindings]
    ELSE IF value.k = "Fun"
         THEN IF pattern.name = value.name /\ Len(pattern.args) = Len(value.args)
              THEN match_args(pattern.args, value.args, 1, bindings)
              ELSE [ok |-> FALSE, b |-> bindings]
         ELSE [ok |-> FALSE, b |-> bindings]
\* Mutant: a second occurrence of a bound name fails.
pattern_match_impl_once(pattern, value, bindings) ==
    IF pattern.k = "Sym"
    THEN IF bindings[pattern.name] # Unbound
         THEN [ok |-> FALSE, b |-> bindings]
         ELSE [ok |-> TRUE, b |-> [bindings EXCEPT ![pattern.name] = value]]
    ELSE IF value.k = "Fun"
         THEN IF pattern.name = value.name /\ Len(pattern.args) = Len(value.args)
              THEN match_args(pattern.args, value.args, 1, bindings)
              ELSE [ok |-> FALSE, b |-> bindings]
         ELSE [ok |-> FALSE, b |-> bindings]
\* Mutant: a name is bound to the pattern's Symbol, not to the value.
pattern_match_impl_bindself(pattern, value, bindings) ==
    IF pattern.k = "Sym"
    THEN IF bindings[pattern.name] # Unbound
         THEN [ok |-> bindings[pattern.name] = value, b |-> bindings]
         ELSE [ok |-> TRUE, b |-> [bindings EXCEPT ![pattern.name] = pattern]]
    ELSE IF value.k = "Fun"
         THEN IF pattern.name = value.name /\ Len(pattern.args) = Len(value.args)
              THEN match_args(pattern.args, value.args, 1, bindings)
              ELSE [ok |-> FALSE, b |-> bindings]
         ELSE [ok |-> FALSE, b |-> bindings]
\* The inner fn: the bool it returns and the bindings it leaves behind.
pattern_match_impl(pattern, value, bindings) ==
    IF pattern.k = "Sym"
    THEN IF bindings[pattern.name] # Unbound
         THEN [ok |-> bindings[pattern.name] = value, b |-> bindings]
         ELSE [ok |-> TRUE, b |-> [bindings EXCEPT ![pattern.name] = value]]
    ELSE IF value.k = "Fun"
         THEN IF pattern.name = value.name /\ Len(pattern.args) = Len(value.args)
              THEN match_args(pattern.args, value.args, 1, bindings)
              ELSE [ok |-> FALSE, b |-> bindings]
         ELSE [ok |-> FALSE, b |-> bindings]
\* for i in 0..args1.len(), from the i-th pair on (1-based)
match_args(args1, args2, i, bindings) ==
    IF i > Len(args1) THEN [ok |-> TRUE, b |-> bindings]
    ELSE LET r == pattern_match_impl(args1[i], args2[i], bindings)
         IN  IF ~r.ok THEN [ok |-> FALSE, b |-> r.b]
             ELSE match_args(args1, args2, i + 1, r.b)

pattern_match(pattern, value) ==
    LET r == pattern_match_impl(pattern, value, EmptyBindings)
    IN  IF r.ok THEN Some(r.b) ELSE None

----------------------------------------------------------------------------
(* fn substitute_bindings *)

RECURSIVE substitute_bindings(_, _)
\* Mutant: a functor name bound to a function application takes that
\* application's name instead of failing.
substitute_bindings_nofail(bindings, expr) ==
    IF expr.k = "Sym"
    THEN IF bindings[expr.name] # Unbound THEN bindings[expr.name] ELSE expr
    ELSE LET bound == bindings[expr.name]
             new_args == [i \in 1..Len(expr.args) |->
                             substitute_bindings(bindings, expr.args[i])]
         IN  IF \E i \in 1..Len(expr.args) : new_args[i] = Panic THEN Panic
             ELSE Fun(IF bound.k \in {"Sym", "Fun"} THEN bound.name ELSE expr.name,
                      new_args)
\* Mutant: the new arguments are collected in reverse (insert(0, ..) for push).
substitute_bindings_reversed(bindings, expr) ==
    IF expr.k = "Sym"
    THEN IF bindings[expr.name] # Unbound THEN bindings[expr.name] ELSE expr
    ELSE LET bound == bindings[expr.name]
             n == Len(expr.args)
             new_args == [i \in 1..n |->
                             substitute_bindings(bindings, expr.args[n + 1 - i])]
         IN  IF bound.k = "Fun" THEN Panic
             ELSE IF \E i \in 1..n : new_args[i] = Panic THEN Panic
             ELSE Fun(IF bound.k = "Sym" THEN bound.name ELSE expr.name, new_args)
\* Mutant: a Symbol bound to a Symbol that is bound too takes the latter's
\* binding.
substitute_bindings_chained(bindings, expr) ==
    IF expr.k = "Sym"
    THEN LET value == bindings[expr.name]
         IN  IF value = Unbound THEN expr
             ELSE IF value.k = "Sym" /\ bindings[value.name] # Unbound
             THEN bindings[value.name]
             ELSE value
    ELSE LET bound == bindings[expr.name]
             new_args == [i \in 1..Len(expr.args) |->
                             substitute_bindings(bindings, expr.args[i])]
         IN  IF bound.k = "Fun" THEN Panic
             ELSE IF \E i \in 1..Len(expr.args) : new_args[i] = Panic THEN Panic
             ELSE Fun(IF bound.k = "Sym" THEN bound.name ELSE expr.name, new_args)
substitute_bindings(bindings, expr) ==
    IF expr.k = "Sym"
    THEN IF bindings[expr.name] # Unbound THEN bindings[expr.name] ELSE expr
    ELSE LET bound == bindings[expr.name]
             new_args == [i \in 1..Len(expr.args) |->
                             substitute_bindings(bindings, expr.args[i])]
         IN  IF bound.k = "Fun" THEN Panic
             ELSE IF \E i \in 1..Len(expr.args) : new_args[i] = Panic THEN Panic
             ELSE Fun(IF bound.k = "Sym" THEN bound.name ELSE expr.name, new_args)

----------------------------------------------------------------------------
(* impl Rule *)

RECURSIVE apply_all(_, _)
\* Mutant: what the substitution produced is rewritten once more.
apply_all_again(rule, expr) ==
    LET m == pattern_match(rule.head, expr)
    IN  IF m.some
        THEN LET r == substitute_bindings(m.b, rule.body)
                 m2 == pattern_match(rule.head, r)
             IN  IF r # Panic /\ m2.some
                 THEN substitute_bindings(m2.b, rule.body)
                 ELSE r
        ELSE IF expr.k = "Sym" THEN expr
        ELSE LET new_args == [i \in 1..Len(expr.args) |->
                                 apply_all(rule, expr.args[i])]
             IN  IF \E i \in 1..Len(expr.args) : new_args[i] = Panic THEN Panic
                 ELSE Fun(expr.name, new_args)
\* Mutant: only the leftmost argument that a rewrite changes is rewritten.
apply_all_first(rule, expr) ==
    LET m == pattern_match(rule.head, expr)
    IN  IF m.some THEN substitute_bindings(m.b, rule.body)
        ELSE IF expr.k = "Sym" THEN expr
        ELSE LET changed == {i \in 1..Len(expr.args) :
                                apply_all(rule, expr.args[i]) # expr.args[i]}
                 first == IF changed = {} THEN 0
                          ELSE CHOOSE i \in changed : \A j \in changed : i <= j
                 new_args == [i \in 1..Len(expr.args) |->
                                 IF i = first THEN apply_all(rule, expr.args[i])
                                 ELSE expr.args[i]]
             IN  IF \E i \in 1..Len(expr.args) : new_args[i] = Panic THEN Panic
                 ELSE Fun(expr.name, new_args)
\* Mutant: the arguments are cloned, not rewritten.
apply_all_shallow(rule, expr) ==
    LET m == pattern_match(rule.head, expr)
    IN  IF m.some THEN substitute_bindings(m.b, rule.body)
        ELSE expr
\* Mutant: the rewritten arguments are collected in reverse.
apply_all_reversed(rule, expr) ==
    LET m == pattern_match(rule.head, expr)
    IN  IF m.some THEN substitute_bindings(m.b, rule.body)
        ELSE IF expr.k = "Sym" THEN expr
        ELSE LET n == Len(expr.args)
                 new_args == [i \in 1..n |-> apply_all(rule, expr.args[n + 1 - i])]
             IN  IF \E i \in 1..n : new_args[i] = Panic THEN Panic
                 ELSE Fun(expr.name, new_args)
apply_all(rule, expr) ==
    LET m == pattern_match(rule.head, expr)
    IN  IF m.some THEN substitute_bindings(m.b, rule.body)
        ELSE IF expr.k = "Sym" THEN expr
        ELSE LET new_args == [i \in 1..Len(expr.args) |->
                                 apply_all(rule, expr.args[i])]
             IN  IF \E i \in 1..Len(expr.args) : new_args[i] = Panic THEN Panic
                 ELSE Fun(expr.name, new_args)

----------------------------------------------------------------------------
(* src/src/lexer.rs.  A character is a one-character string, a text a      *)
(* sequence of characters.  An Option<String> is <<>> or <<s>>.            *)

Whitespace == {" ", "\n"}
Alphanumeric ==
    {"a", "b", "d", "e", "h", "i", "l", "n", "o", "p", "r", "s", "u", "w", "y", "1"}
\* The characters the inputs of SpecLexer are drawn from: whitespace, the
\* five punctuation characters, alphanumerics and a character that is none
\* of these.
Alphabet == {" ", "\n", "(", ")", ",", "=", ":", "+", "a", "1"}

is_whitespace(x) == x \in Whitespace
is_alphanumeric(x) == x \in Alphanumeric

\* struct Loc, struct Token, and next()'s None.
Loc(path, row, col) == [file_path |-> path, row |-> row, col |-> col]
Token(kind, text, loc) == [kind |-> kind, text |-> text, loc |-> loc]
NoToken == Token("None", <<>>, Loc(<<>>, 0, 0))

\* Mutant: a word is a keyword as soon as it begins with one.
keyword_by_name_prefix(text) ==
    IF Len(text) >= 4 /\ SubSeq(text, 1, 4) = <<"r", "u", "l", "e">> THEN <<"Rule">>
    ELSE IF Len(text) >= 5 /\ SubSeq(text, 1, 5) = <<"s", "h", "a", "p", "e">>
    THEN <<"Shape">>
    ELSE IF Len(text) >= 5 /\ SubSeq(text, 1, 5) = <<"a", "p", "p", "l", "y">>
    THEN <<"Apply">>
    ELSE IF Len(text) >= 4 /\ SubSeq(text, 1, 4) = <<"d", "o", "n", "e">> THEN <<"Done">>
    ELSE <<>>
keyword_by_name(text) ==
    IF text = <<"r", "u", "l", "e">> THEN <<"Rule">>
    ELSE IF text = <<"s", "h", "a", "p", "e">> THEN <<"Shape">>
    ELSE IF text = <<"a", "p", "p", "l", "y">> THEN <<"Apply">>
    ELSE IF text = <<"d", "o", "n", "e">> THEN <<"Done">>
    ELSE <<>>

\* A Lexer's fields, as a record.
lexer_loc(lx) == Loc(lx.file_path, lx.lnum, lx.cnum - lx.bol)

RECURSIVE skip_whitespace(_)
\* Mutant: a line begins at its newline, not after it.
skip_whitespace_bol(lx) ==
    IF lx.chars # <<>> /\ is_whitespace(Head(lx.chars))
    THEN LET c == lx.cnum + 1
         IN  skip_whitespace(
                 [lx EXCEPT !.chars = Tail(lx.chars),
                            !.cnum = c,
                            !.lnum = IF Head(lx.chars) = "\n" THEN @ + 1 ELSE @,
                            !.bol = IF Head(lx.chars) = "\n" THEN lx.cnum ELSE @])
    ELSE lx
\* while let Some(x) = self.chars.next_if(|x| x.is_whitespace()) { ... }
skip_whitespace(lx) ==
    IF lx.chars # <<>> /\ is_whitespace(Head(lx.chars))
    THEN LET c == lx.cnum + 1
         IN  skip_whitespace(
                 [lx EXCEPT !.chars = Tail(lx.chars),
                            !.cnum = c,
                            !.lnum = IF Head(lx.chars) = "\n" THEN @ + 1 ELSE @,
                            !.bol = IF Head(lx.chars) = "\n" THEN c ELSE @])
    ELSE lx

RECURSIVE scan_word(_, _)
\* Mutant: the character that ends the word is taken off the input too
\* (next() for next_if()).
scan_word_lossy(lx, text) ==
    IF lx.chars # <<>>
    THEN IF is_alphanumeric(Head(lx.chars))
         THEN scan_word([lx EXCEPT !.chars = Tail(lx.chars), !.cnum = @ + 1],
                        Append(text, Head(lx.chars)))
         ELSE [lx |-> [lx EXCEPT !.chars = Tail(lx.chars), !.cnum = @ + 1],
               text |-> text]
    ELSE [lx |-> lx, text |-> text]
\* Mutant: the characters of a word after its first are not counted.
scan_word_nocount(lx, text) ==
    IF lx.chars # <<>> /\ is_alphanumeric(Head(lx.chars))
    THEN scan_word([lx EXCEPT !.chars = Tail(lx.chars)],
                   Append(text, Head(lx.chars)))
    ELSE [lx |-> lx, text |-> text]
\* while let Some(x) = self.chars.next_if(|x| x.is_alphanumeric()) { ... }
\* The Lexer and the text it leaves.
scan_word(lx, text) ==
    IF lx.chars # <<>> /\ is_alphanumeric(Head(lx.chars))
    THEN scan_word([lx EXCEPT !.chars = Tail(lx.chars), !.cnum = @ + 1],
                   Append(text, Head(lx.chars)))
    ELSE [lx |-> lx, text |-> text]

\* Mutant: an invalid character does not exhaust the Lexer.
lexer_next_failsoft(lx0) ==
    IF lx0.exhausted THEN [lx |-> lx0, ret |-> NoToken]
    ELSE
    LET lx1 == skip_whitespace(lx0)
        loc == lexer_loc(lx1)
    IN  IF lx1.chars = <<>>
        THEN [lx |-> [lx1 EXCEPT !.exhausted = TRUE],
              ret |-> Token("End", <<>>, loc)]
        ELSE
        LET x == Head(lx1.chars)
            lx2 == [lx1 EXCEPT !.chars = Tail(lx1.chars), !.cnum = @ + 1]
            text == <<x>>
        IN  IF x = "(" THEN [lx |-> lx2, ret |-> Token("OpenParen", text, loc)]
            ELSE IF x = ")" THEN [lx |-> lx2, ret |-> Token("CloseParen", text, loc)]
            ELSE IF x = "," THEN [lx |-> lx2, ret |-> Token("Comma", text, loc)]
            ELSE IF x = "=" THEN [lx |-> lx2, ret |-> Token("Equals", text, loc)]
            ELSE IF x = ":" THEN [lx |-> lx2, ret |-> Token("Colon", text, loc)]
            ELSE IF ~is_alphanumeric(x)
            THEN [lx |-> lx2, ret |-> Token("Invalid", text, loc)]
            ELSE
            LET w == scan_word(lx2, text)
                kw == keyword_by_name(w.text)
            IN  [lx |-> w.lx,
                 ret |-> Token(IF kw # <<>> THEN kw[1] ELSE "Sym", w.text, loc)]
\* Mutant: the end of the input does not exhaust the Lexer.
lexer_next_noend(lx0) ==
    IF lx0.exhausted THEN [lx |-> lx0, ret |-> NoToken]
    ELSE
    LET lx1 == skip_whitespace(lx0)
        loc == lexer_loc(lx1)
    IN  IF lx1.chars = <<>>
        THEN [lx |-> lx1, ret |-> Token("End", <<>>, loc)]
        ELSE
        LET x == Head(lx1.chars)
            lx2 == [lx1 EXCEPT !.chars = Tail(lx1.chars), !.cnum = @ + 1]
            text == <<x>>
        IN  IF x = "(" THEN [lx |-> lx2, ret |-> Token("OpenParen", text, loc)]
            ELSE IF x = ")" THEN [lx |-> lx2, ret |-> Token("CloseParen", text, loc)]
            ELSE IF x = "," THEN [lx |-> lx2, ret |-> Token("Comma", text, loc)]
            ELSE IF x = "=" THEN [lx |-> lx2, ret |-> Token("Equals", text, loc)]
            ELSE IF x = ":" THEN [lx |-> lx2, ret |-> Token("Colon", text, loc)]
            ELSE IF ~is_alphanumeric(x)
            THEN [lx |-> [lx2 EXCEPT !.exhausted = TRUE],
                  ret |-> Token("Invalid", text, loc)]
            ELSE
            LET w == scan_word(lx2, text)
                kw == keyword_by_name(w.text)
            IN  [lx |-> w.lx,
                 ret |-> Token(IF kw # <<>> THEN kw[1] ELSE "Sym", w.text, loc)]
\* fn next(&mut self) -> Option<Token>: the Lexer it leaves and what it
\* returns.
lexer_next(lx0) ==
    IF lx0.exhausted THEN [lx |-> lx0, ret |-> NoToken]
    ELSE
    LET lx1 == skip_whitespace(lx0)
        loc == lexer_loc(lx1)
    IN  IF lx1.chars = <<>>
        THEN [lx |-> [lx1 EXCEPT !.exhausted = TRUE],
              ret |-> Token("End", <<>>, loc)]
        ELSE
        LET x == Head(lx1.chars)
            lx2 == [lx1 EXCEPT !.chars = Tail(lx1.chars), !.cnum = @ + 1]
            text == <<x>>
        IN  IF x = "(" THEN [lx |-> lx2, ret |-> Token("OpenParen", text, loc)]
            ELSE IF x = ")" THEN [lx |-> lx2, ret |-> Token("CloseParen", text, loc)]
            ELSE IF x = "," THEN [lx |-> lx2, ret |-> Token("Comma", text, loc)]
            ELSE IF x = "=" THEN [lx |-> lx2, ret |-> Token("Equals", text, loc)]
            ELSE IF x = ":" THEN [lx |-> lx2, ret |-> Token("Colon", text, loc)]
            ELSE IF ~is_alphanumeric(x)
            THEN [lx |-> [lx2 EXCEPT !.exhausted = TRUE],
                  ret |-> Token("Invalid", text, loc)]
            ELSE
            LET w == scan_word(lx2, text)
                kw == keyword_by_name(w.text)
            IN  [lx |-> w.lx,
                 ret |-> Token(IF kw # <<>> THEN kw[1] ELSE "Sym", w.text, loc)]

----------------------------------------------------------------------------
(* The harnesses of the rewriting functions. *)

NoExpr == Unbound

\* No Lexer is at work in the rewriting harnesses.
LexerIdle ==
    /\ input = <<>> /\ chars = <<>> /\ exhausted = FALSE /\ file_path = <<>>
    /\ lnum = 0 /\ bol = 0 /\ cnum = 0 /\ ret = NoToken /\ tokens = <<>>

InitMatch ==
    /\ op = "init"
    /\ \/ /\ head \in ExprsUpTo(MaxPatSize)
          /\ subject \in ExprsUpTo(MaxValSize)
       \/ \E pv \in ExamplePairs : head = pv[1] /\ subject = pv[2]
    /\ body = NoExpr
    /\ template = NoExpr
    /\ bnd = Some(EmptyBindings)
    /\ out = NoExpr
    /\ LexerIdle

\* let m = pattern_match(&head, &subject)
Match ==
    /\ bnd' = pattern_match(head, subject)
    /\ op' = "pattern_match"
    /\ template' = NoExpr
    /\ out' = NoExpr
    /\ UNCHANGED <<head, body, subject>>
    /\ UNCHANGED lexerVars

\* substitute_bindings(&bindings, &t), with the bindings at hand: the empty
\* HashMap::new(), or the ones the last pattern_match returned.
Substitute(t) ==
    /\ bnd.some
    /\ template' = t
    /\ out' = substitute_bindings(bnd.b, t)
    /\ op' = "substitute_bindings"
    /\ UNCHANGED <<head, body, subject, bnd>>
    /\ UNCHANGED lexerVars

NextMatch ==
    \/ Match
    \/ \E t \in {head, subject} : Substitute(t)

SpecMatch == InitMatch /\ [][NextMatch]_vars

InitApply ==
    /\ op = "init"
    /\ \/ /\ head \in ExprsUpTo(MaxHeadSize)
          /\ body \in ExprsUpTo(MaxBodySize)
          /\ subject \in ExprsUpTo(MaxSubjSize)
       \/ \E hbs \in ExampleTriples :
              head = hbs[1] /\ body = hbs[2] /\ subject = hbs[3]
    /\ template = NoExpr
    /\ bnd = None
    /\ out = NoExpr
    /\ LexerIdle

\* Rule { head, body }.apply_all(&subject)
ApplyAll ==
    /\ op = "init"
    /\ out' = apply_all([head |-> head, body |-> body], subject)
    /\ op' = "apply_all"
    /\ UNCHANGED <<head, body, subject, template, bnd>>
    /\ UNCHANGED lexerVars

NextApply == ApplyAll

SpecApply == InitApply /\ [][NextApply]_vars

----------------------------------------------------------------------------
(* The Lexer. *)

RECURSIVE SeqsOfLen(_)
SeqsOfLen(n) ==
    IF n = 0 THEN {<<>>}
    ELSE {Append(t, x) : t \in SeqsOfLen(n - 1), x \in Alphabet}

\* "swap(a, b) = pair(b, a)"
SwapInput ==
    <<"s", "w", "a", "p", "(", "a", ",", " ", "b", ")", " ", "=", " ",
      "p", "a", "i", "r", "(", "b", ",", " ", "a", ")">>
\* The inputs of the worked examples: "a+b", "a\nb", the keywords, words
\* that a keyword begins or ends, and the swap rule.
ExampleInputs ==
    { <<"a", "+", "b">>, <<"a", "\n", "b">>,
      <<"d", "o", "n", "e">>, <<"d", "o", "n", "e", "1">>,
      <<"r", "u", "l", "e">>, <<"r", "u", "l", "e", "s">>,
      <<"s", "h", "a", "p", "e">>, <<"a", "p", "p", "l", "y">>,
      <<"a", "r", "u", "l", "e">>,
      <<" ", "\n", "r", "u", "l", "e", ":", "\n", " ", "d", "o", "n", "e", " ">>,
      SwapInput }
Inputs == UNION {SeqsOfLen(n) : n \in 0..MaxLen} \cup ExampleInputs

FilePaths == {"rules.noq"}

\* No rewriting is at work in the Lexer's specification.
RewriteIdle ==
    /\ head = NoExpr /\ body = NoExpr /\ subject = NoExpr /\ template = NoExpr
    /\ bnd = None /\ out = NoExpr

\* The Lexer's fields, as the record lexer_next takes.
TheLexer ==
    [chars |-> chars, exhausted |-> exhausted, file_path |-> file_path,
     lnum |-> lnum, bol |-> bol, cnum |-> cnum]

\* Lexer::from_iter(input.chars())
InitLexer ==
    /\ op = "from_iter"
    /\ input \in Inputs
    /\ chars = input
    /\ exhausted = FALSE
    /\ file_path = <<>>
    /\ lnum = 0
    /\ bol = 0
    /\ cnum = 0
    /\ ret = NoToken
    /\ tokens = <<>>
    /\ RewriteIdle

\* lexer.next()
LexNext ==
    LET r == lexer_next(TheLexer)
    IN  /\ op' = "next"
        /\ chars' = r.lx.chars
        /\ exhausted' = r.lx.exhausted
        /\ file_path' = r.lx.file_path
        /\ lnum' = r.lx.lnum
        /\ bol' = r.lx.bol
        /\ cnum' = r.lx.cnum
        /\ ret' = r.ret
        /\ tokens' = IF r.ret # NoToken THEN Append(tokens, r.ret) ELSE tokens
        /\ UNCHANGED <<input, head, body, subject, template, bnd, out>>

\* lexer.set_file_path(p)
SetFilePath(p) ==
    /\ file_path' = <<p>>
    /\ op' = "set_file_path"
    /\ UNCHANGED <<input, chars, exhausted, lnum, bol, cnum, ret, tokens>>
    /\ UNCHANGED <<head, body, subject, template, bnd, out>>

NextLexer ==
    \/ LexNext
    \/ \E p \in FilePaths : SetFilePath(p)

SpecLexer == InitLexer /\ [][NextLexer]_vars

----------------------------------------------------------------------------
(* Occurrences in an expression: a position is the path of argument        *)
(* indices from the root.                                                  *)

RECURSIVE Positions(_), SubtermAt(_, _), ReplaceAt(_, _, _)
Positions(e) ==
    {<<>>} \cup UNION {{<<i>> \o q : q \in Positions(e.args[i])}
                       : i \in 1..Len(e.args)}
SubtermAt(e, p) ==
    IF p = <<>> THEN e ELSE SubtermAt(e.args[Head(p)], Tail(p))
ReplaceAt(e, p, t) ==
    IF p = <<>> THEN t
    ELSE [e EXCEPT !.args[Head(p)] = ReplaceAt(@, Tail(p), t)]

ProperPrefix(q, p) == Len(q) < Len(p) /\ SubSeq(p, 1, Len(q)) = q
SymLeafPositions(e) == {p \in Positions(e) : SubtermAt(e, p).k = "Sym"}
SymLeafNames(e) == {SubtermAt(e, p).name : p \in SymLeafPositions(e)}

TheRule == [head |-> head, body |-> body]
Matches(h, e) == pattern_match(h, e).some
\* What the rule's body becomes under the bindings of h matched against e.
Rewritten(rule, e) ==
    substitute_bindings(pattern_match(rule.head, e).b, rule.body)

\* The occurrences in e that the head matches and that lie inside no other
\* occurrence the head matches.
OutermostMatches(h, e) ==
    {p \in Positions(e) :
        /\ Matches(h, SubtermAt(e, p))
        /\ \A q \in Positions(e) :
              ProperPrefix(q, p) => ~Matches(h, SubtermAt(e, q))}

RECURSIVE RewriteAt(_, _, _, _)
\* e with each occurrence of ps replaced by the body substituted for what
\* stood there in orig (the occurrences of ps are pairwise disjoint).
RewriteAt(rule, orig, e, ps) ==
    IF ps = {} THEN e
    ELSE LET p == CHOOSE q \in ps : TRUE
         IN  RewriteAt(rule, orig,
                       ReplaceAt(e, p, Rewritten(rule, SubtermAt(orig, p))),
                       ps \ {p})

RECURSIVE ShapeFits(_, _)
\* s has a function application of the same name and arity wherever p has.
ShapeFits(p, s) ==
    \/ p.k = "Sym"
    \/ /\ s.k = "Fun"
       /\ p.name = s.name
       /\ Len(p.args) = Len(s.args)
       /\ \A i \in 1..Len(p.args) : ShapeFits(p.args[i], s.args[i])
\* No Symbol name occurs twice among the leaves of p.
Linear(p) ==
    \A q1, q2 \in SymLeafPositions(p) :
        SubtermAt(p, q1).name = SubtermAt(p, q2).name => q1 = q2

----------------------------------------------------------------------------
(* The claims. *)

\* C1: when the head matches the whole subject, apply_all returns exactly
\* the body substituted under the bindings of that match (or fails as that
\* substitution fails): no subterm of the subject and nothing of the result
\* is rewritten again.
C1_RoundTrip ==
    (op = "apply_all" /\ Matches(head, subject))
        => out = substitute_bindings(pattern_match(head, subject).b, body)

\* A whole-subject match whose subject holds a further matching subterm and
\* whose result could be rewritten again.
C1_Witness ==
    /\ op = "apply_all"
    /\ Matches(head, subject)
    /\ out # Panic
    /\ \E p \in Positions(subject) \ {<<>>} : Matches(head, SubtermAt(subject, p))
    /\ Matches(head, out)
    /\ Rewritten(TheRule, out) # out

\* C2 as stated: the returned tree differs from the subject by at most one
\* matched region, replaced by the substituted body.
C2_AtMostOneRegion ==
    (op = "apply_all" /\ out # Panic)
        => \/ out = subject
           \/ \E p \in Positions(subject) :
                 /\ Matches(head, SubtermAt(subject, p))
                 /\ out = ReplaceAt(subject, p,
                                    Rewritten(TheRule, SubtermAt(subject, p)))

\* C2, amended: apply_all rewrites every outermost occurrence the head
\* matches, and nothing else: the result is the subject with each of them
\* replaced by its substituted body (and the call fails iff one of these
\* substitutions does).
C2_EveryOutermostRegion ==
    op = "apply_all"
        => LET ps == OutermostMatches(head, subject)
           IN  IF \E p \in ps : Rewritten(TheRule, SubtermAt(subject, p)) = Panic
               THEN out = Panic
               ELSE out = RewriteAt(TheRule, subject, subject, ps)

\* Two sibling occurrences are both rewritten in one call.
C2_Witness ==
    /\ op = "apply_all"
    /\ out # Panic
    /\ \E p, q \in OutermostMatches(head, subject) :
          /\ p # q
          /\ SubtermAt(out, p) # SubtermAt(subject, p)
          /\ SubtermAt(out, q) # SubtermAt(subject, q)

\* C3: when the head does not match the whole subject, a Symbol is returned
\* unchanged and a function application keeps its name and arity, its i-th
\* argument being apply_all of the subject's i-th argument (the call failing
\* when one of these fails); f(a) => c on g(f(a)) yields g(c).
C3_DescendIntoArguments ==
    (op = "apply_all" /\ ~Matches(head, subject))
        => /\ subject.k = "Sym" => out = subject
           /\ subject.k = "Fun" =>
                IF \E i \in 1..Len(subject.args) :
                       apply_all(TheRule, subject.args[i]) = Panic
                THEN out = Panic
                ELSE /\ out.k = "Fun"
                     /\ out.name = subject.name
                     /\ Len(out.args) = Len(subject.args)
                     /\ \A i \in 1..Len(subject.args) :
                           out.args[i] = apply_all(TheRule, subject.args[i])
           /\ ( /\ head = Fun("f", <<Sym("a")>>)
                /\ body = Sym("c")
                /\ subject = Fun("g", <<Fun("f", <<Sym("a")>>)>>) )
                => out = Fun("g", <<Sym("c")>>)

\* The head matches an argument of the subject, not the subject.
C3_Witness ==
    /\ op = "apply_all"
    /\ ~Matches(head, subject)
    /\ subject.k = "Fun"
    /\ out # Panic
    /\ \E i \in 1..Len(subject.args) :
          Matches(head, subject.args[i]) /\ out.args[i] # subject.args[i]

\* C4: a match succeeds only if every Symbol leaf of the pattern is bound to
\* the subterm of the value at its position, so two occurrences of a name
\* stand against equal subterms; f(x, x) against f(s, t) succeeds, with
\* exactly x -> s, iff s = t.
C4_ConsistentBinding ==
    op = "pattern_match"
        => /\ bnd.some =>
                \A p \in SymLeafPositions(head) :
                    /\ p \in Positions(subject)
                    /\ bnd.b[SubtermAt(head, p).name] = SubtermAt(subject, p)
           /\ ( /\ head.k = "Fun" /\ Len(head.args) = 2
                /\ head.args[1].k = "Sym" /\ head.args[2] = head.args[1]
                /\ subject.k = "Fun" /\ subject.name = head.name
                /\ Len(subject.args) = 2 )
                => bnd = IF subject.args[1] = subject.args[2]
                         THEN Some([EmptyBindings EXCEPT
                                       ![head.args[1].name] = subject.args[1]])
                         ELSE None

\* A name that occurs twice is bound to a function application.
C4_Witness ==
    /\ op = "pattern_match"
    /\ bnd.some
    /\ \E p, q \in SymLeafPositions(head) :
          /\ p # q
          /\ SubtermAt(head, p).name = SubtermAt(head, q).name
          /\ SubtermAt(subject, p).k = "Fun"

\* C5: a function-application pattern fails against a Symbol, against an
\* application of another name or another arity, and when any of its
\* arguments fails against the value's; every failure is None, with none of
\* the bindings made on the way.
C5_ShapeMismatch ==
    op = "pattern_match"
        => /\ head.k = "Fun" /\ subject.k = "Sym" => bnd = None
           /\ ( /\ head.k = "Fun" /\ subject.k = "Fun"
                /\ \/ head.name # subject.name
                   \/ Len(head.args) # Len(subject.args) )
                => bnd = None
           /\ ( /\ head.k = "Fun" /\ subject.k = "Fun"
                /\ Len(head.args) = Len(subject.args)
                /\ \E i \in 1..Len(head.args) :
                      ~Matches(head.args[i], subject.args[i]) )
                => bnd = None
           /\ ~bnd.some => bnd = None

\* A match that fails after it has bound a name.
C5_Witness ==
    /\ op = "pattern_match"
    /\ head.k = "Fun" /\ subject.k = "Fun"
    /\ head.name = subject.name /\ Len(head.args) = Len(subject.args)
    /\ bnd = None
    /\ pattern_match_impl(head, subject, EmptyBindings).b # EmptyBindings

\* C6: a pattern that is a Symbol v matches every value s with exactly
\* {v -> s}; and a pattern in which no name occurs twice matches every value
\* of its shape, each Symbol leaf bound to whatever stands at its position
\* (f(a) matches f(b)).
C6_EverySymbolIsAVariable ==
    op = "pattern_match"
        => /\ head.k = "Sym"
                => bnd = Some([EmptyBindings EXCEPT ![head.name] = subject])
           /\ (Linear(head) /\ ShapeFits(head, subject))
                => /\ bnd.some
                   /\ \A p \in SymLeafPositions(head) :
                         bnd.b[SubtermAt(head, p).name] = SubtermAt(subject, p)
                   /\ Keys(bnd.b) = SymLeafNames(head)

\* f(a) has matched f(b).
C6_Witness ==
    /\ op = "pattern_match"
    /\ head = Fun("f", <<Sym("a")>>)
    /\ subject = Fun("f", <<Sym("b")>>)
    /\ bnd = Some([EmptyBindings EXCEPT !["a"] = Sym("b")])

\* C7: wherever apply_all substitutes a body Fun(name, children): with name
\* bound to a function application the substitution fails, and so does the
\* whole apply_all call; otherwise, unless a child fails, the result is a
\* function application of the body's arity, named by the Symbol bound to
\* name (by name itself when unbound), whose children are the body's
\* children substituted under the same bindings.
C7_FunctorSubstitution ==
    (op = "apply_all" /\ body.k = "Fun")
        => \A p \in OutermostMatches(head, subject) :
              LET b == pattern_match(head, SubtermAt(subject, p)).b
                  r == substitute_bindings(b, body)
                  kids == [i \in 1..Len(body.args) |->
                              substitute_bindings(b, body.args[i])]
              IN  /\ b[body.name].k = "Fun" => r = Panic
                  /\ r = Panic => out = Panic
                  /\ r = Panic =>
                        \/ b[body.name].k = "Fun"
                        \/ \E i \in 1..Len(body.args) : kids[i] = Panic
                  /\ r # Panic =>
                        /\ r.k = "Fun"
                        /\ r.name = IF b[body.name].k = "Sym"
                                    THEN b[body.name].name ELSE body.name
                        /\ Len(r.args) = Len(body.args)
                        /\ \A i \in 1..Len(body.args) : r.args[i] = kids[i]
                        /\ out # Panic => SubtermAt(out, p) = r

\* A substitution inside an argument of the subject has failed, and the
\* whole call with it.
C7_Witness ==
    /\ op = "apply_all"
    /\ body.k = "Fun"
    /\ ~Matches(head, subject)
    /\ \E p \in OutermostMatches(head, subject) :
          pattern_match(head, SubtermAt(subject, p)).b[body.name].k = "Fun"
    /\ out = Panic

\* C8: an expression matches itself, and the bindings map each Symbol that
\* is a leaf of it to itself and hold nothing else.
C8_MatchReflexive ==
    (op = "pattern_match" /\ head = subject)
        => /\ bnd.some
           /\ \A nm \in AllNames :
                 bnd.b[nm] = IF nm \in SymLeafNames(head) THEN Sym(nm) ELSE Unbound

\* An expression with a repeated Symbol leaf has been matched against itself.
C8_Witness ==
    /\ op = "pattern_match"
    /\ head = subject
    /\ bnd.some
    /\ \E p, q \in SymLeafPositions(head) :
          p # q /\ SubtermAt(head, p) = SubtermAt(head, q)

\* C9: under empty bindings substitute_bindings returns its template.
C9_EmptyBindingsIdentity ==
    (op = "substitute_bindings" /\ bnd = Some(EmptyBindings))
        => out = template

\* A template with a Symbol and a zero-arity application among its
\* arguments has been substituted under empty bindings.
C9_Witness ==
    /\ op = "substitute_bindings"
    /\ bnd = Some(EmptyBindings)
    /\ template.k = "Fun"
    /\ \E i, j \in 1..Len(template.args) :
          template.args[i].k = "Sym" /\ template.args[j] = Fun("a", <<>>)
    /\ out = template

\* next() has returned an Invalid or an End token.
Ended ==
    /\ tokens # <<>>
    /\ tokens[Len(tokens)].kind \in {"Invalid", "End"}

\* C10: once next() has returned an Invalid or an End token, the Lexer is
\* exhausted and stays so, no character is consumed any more, and every
\* further next() returns None.
C10_ExhaustionPermanent ==
    /\ [](Ended => exhausted)
    /\ [][Ended => /\ exhausted'
                   /\ chars' = chars
                   /\ cnum' = cnum
                   /\ tokens' = tokens
                   /\ op' = "next" => ret' = NoToken]_vars

\* next() has returned None although characters remain after the invalid one.
C10_Witness ==
    /\ op = "next"
    /\ Ended
    /\ tokens[Len(tokens)].kind = "Invalid"
    /\ chars # <<>>
    /\ ret = NoToken

----------------------------------------------------------------------------
(* What the claims about the Lexer speak of. *)

IsPunct(x) == x \in {"(", ")", ",", "=", ":"}
IsInvalidChar(x) == ~is_whitespace(x) /\ ~IsPunct(x) /\ ~is_alphanumeric(x)
\* The index of the first invalid character of s, 0 when it has none.
FirstInvalid(s) ==
    IF \E i \in 1..Len(s) : IsInvalidChar(s[i])
    THEN CHOOSE i \in 1..Len(s) :
             IsInvalidChar(s[i]) /\ \A j \in 1..(i - 1) : ~IsInvalidChar(s[j])
    ELSE 0
\* The characters of the input taken off it so far.
Consumed == SubSeq(input, 1, Len(input) - Len(chars))
Kinds(ts) == [i \in 1..Len(ts) |-> ts[i].kind]
WordKinds == {"Sym", "Rule", "Shape", "Apply", "Done"}

RECURSIVE ConcatTexts(_), StripWhitespace(_)
ConcatTexts(ts) ==
    IF ts = <<>> THEN <<>> ELSE Head(ts).text \o ConcatTexts(Tail(ts))
StripWhitespace(t) ==
    IF t = <<>> THEN <<>>
    ELSE IF Head(t) \in Whitespace THEN StripWhitespace(Tail(t))
    ELSE <<Head(t)>> \o StripWhitespace(Tail(t))

NewlinesIn(t) == Cardinality({i \in 1..Len(t) : t[i] = "\n"})
\* The index of the last newline of t, 0 when it has none.
LastNewline(t) ==
    IF \E i \in 1..Len(t) : t[i] = "\n"
    THEN CHOOSE i \in 1..Len(t) :
             t[i] = "\n" /\ \A j \in (i + 1)..Len(t) : t[j] # "\n"
    ELSE 0
\* The maximal runs of alphanumeric characters in t.
Runs(t) ==
    Cardinality({i \in 1..Len(t) :
                    /\ is_alphanumeric(t[i])
                    /\ i = 1 \/ ~is_alphanumeric(t[i - 1])})
\* Where in the input the token next() has just returned begins (0-based).
RetPos == Len(input) - Len(chars) - Len(ret.text)

\* The table of the token kinds.
KindOfPunct(x) ==
    CASE x = "(" -> "OpenParen" [] x = ")" -> "CloseParen" [] x = "," -> "Comma"
      [] x = "=" -> "Equals" [] x = ":" -> "Colon"
KindOfWord(t) ==
    CASE t = <<"r", "u", "l", "e">> -> "Rule"
      [] t = <<"s", "h", "a", "p", "e">> -> "Shape"
      [] t = <<"a", "p", "p", "l", "y">> -> "Apply"
      [] t = <<"d", "o", "n", "e">> -> "Done"
      [] OTHER -> "Sym"

\* C11: an Invalid token is the last token, its text is the first invalid
\* character of the input, the characters after that one stay unread, and
\* an input with an invalid character never yields an End token; "a+b"
\* yields the symbol a, the invalid + and nothing more.
C11_FailFast ==
    LET fi == FirstInvalid(input)
    IN  /\ \A i \in 1..Len(tokens) :
              tokens[i].kind = "Invalid"
                => /\ i = Len(tokens)
                   /\ fi # 0
                   /\ tokens[i].text = <<input[fi]>>
                   /\ chars = SubSeq(input, fi + 1, Len(input))
                   /\ exhausted
        /\ fi # 0 => \A i \in 1..Len(tokens) : tokens[i].kind # "End"
        /\ (fi # 0 /\ exhausted) => Ended
        /\ (input = <<"a", "+", "b">> /\ exhausted)
              => /\ Kinds(tokens) = <<"Sym", "Invalid">>
                 /\ tokens[1].text = <<"a">>
                 /\ tokens[2].text = <<"+">>

\* "a+b": next() has been called after the invalid token, and b is unread.
C11_Witness ==
    /\ input = <<"a", "+", "b">>
    /\ op = "next"
    /\ ret = NoToken
    /\ Len(tokens) = 2
    /\ chars = <<"b">>

\* C12: an End token is the last token, has an empty text and comes when the
\* whole input is consumed; an exhausted Lexer whose input has no invalid
\* character has returned it; an input of whitespace alone yields just it.
C12_SingleEnd ==
    /\ \A i \in 1..Len(tokens) :
          tokens[i].kind = "End"
            => /\ i = Len(tokens)
               /\ tokens[i].text = <<>>
               /\ chars = <<>>
               /\ FirstInvalid(input) = 0
    /\ (FirstInvalid(input) = 0 /\ exhausted)
          => tokens # <<>> /\ tokens[Len(tokens)].kind = "End"
    /\ ((\A i \in 1..Len(input) : is_whitespace(input[i])) /\ exhausted)
          => Kinds(tokens) = <<"End">>

\* The End token has come after a token and trailing whitespace.
C12_Witness ==
    /\ Len(tokens) > 1
    /\ tokens[Len(tokens)].kind = "End"
    /\ is_whitespace(input[Len(input)])
    /\ op = "next"
    /\ ret = NoToken

\* C13: the token next() returns is the slice of the input at some position
\* that holds no whitespace, and its loc is that position's: row the
\* newlines before it, col the characters since the last of them; "a\nb"
\* puts a at 0:0 and b at 1:0.
C13_TokenLocation ==
    /\ (op = "next" /\ ret # NoToken)
          => /\ RetPos >= 0
             /\ ret.text = SubSeq(input, RetPos + 1, RetPos + Len(ret.text))
             /\ ret.kind = "End" <=> RetPos = Len(input)
             /\ ret.kind # "End" => ~is_whitespace(input[RetPos + 1])
             /\ ret.loc.row = NewlinesIn(SubSeq(input, 1, RetPos))
             /\ ret.loc.col = RetPos - LastNewline(SubSeq(input, 1, RetPos))
    /\ (input = <<"a", "\n", "b">> /\ exhausted)
          => /\ tokens[1].text = <<"a">>
             /\ tokens[1].loc.row = 0 /\ tokens[1].loc.col = 0
             /\ tokens[2].text = <<"b">>
             /\ tokens[2].loc.row = 1 /\ tokens[2].loc.col = 0

\* A token that begins neither on the first line nor in the first column.
C13_Witness ==
    /\ op = "next"
    /\ ret.kind \in WordKinds
    /\ ret.loc.row > 0
    /\ ret.loc.col > 0

\* C14: a token that is neither End nor Invalid is one punctuation character
\* of its kind, or a maximal run of alphanumeric characters whose kind is
\* the keyword it spells and Sym otherwise; neither exhausts the Lexer.
\* The swap rule and "rules" yield the kinds the spec lists.
C14_Classification ==
    /\ (op = "next" /\ ret.kind \notin {"None", "End", "Invalid"})
          => /\ ~exhausted
             /\ ret.text = SubSeq(input, RetPos + 1, RetPos + Len(ret.text))
             /\ IF IsPunct(input[RetPos + 1])
                THEN Len(ret.text) = 1 /\ ret.kind = KindOfPunct(input[RetPos + 1])
                ELSE /\ Len(ret.text) >= 1
                     /\ \A i \in 1..Len(ret.text) : is_alphanumeric(ret.text[i])
                     /\ chars = <<>> \/ ~is_alphanumeric(Head(chars))
                     /\ RetPos = 0 \/ ~is_alphanumeric(input[RetPos])
                     /\ ret.kind = KindOfWord(ret.text)
    /\ (input = SwapInput /\ exhausted)
          => Kinds(tokens) =
                <<"Sym", "OpenParen", "Sym", "Comma", "Sym", "CloseParen", "Equals",
                  "Sym", "OpenParen", "Sym", "Comma", "Sym", "CloseParen", "End">>
    /\ (input = <<"r", "u", "l", "e", "s">> /\ exhausted)
          => Kinds(tokens) = <<"Sym", "End">>
    /\ (input = <<"r", "u", "l", "e">> /\ exhausted)
          => Kinds(tokens) = <<"Rule", "End">>

\* The swap rule has been tokenized to its end.
C14_Witness ==
    /\ input = SwapInput
    /\ exhausted
    /\ Len(tokens) = 14
    /\ tokens[8].text = <<"p", "a", "i", "r">>

\* The names that stand as a functor somewhere in e.
FunctorNames(e) ==
    {SubtermAt(e, p).name : p \in {q \in Positions(e) : SubtermAt(e, q).k = "Fun"}}

\* C15: substitution is one simultaneous pass: where the template has a
\* Symbol, the result has that Symbol's binding as it stands, not
\* substituted again, and the Symbol itself when it is unbound; under
\* {x -> y, y -> a}, from f(x, y) matched against f(y, a), x yields y.
C15_SimultaneousSubstitution ==
    /\ (op = "substitute_bindings" /\ out # Panic)
          => \A p \in SymLeafPositions(template) :
                SubtermAt(out, p) =
                    IF bnd.b[SubtermAt(template, p).name] # Unbound
                    THEN bnd.b[SubtermAt(template, p).name]
                    ELSE SubtermAt(template, p)
    /\ ( /\ op = "substitute_bindings"
         /\ bnd = Some([EmptyBindings EXCEPT !["x"] = Sym("y"), !["y"] = Sym("a")])
         /\ template = Fun("f", <<Sym("x"), Sym("y")>>) )
          => out = Fun("f", <<Sym("y"), Sym("a")>>)

\* A Symbol template bound to an expression that holds a bound Symbol.
C15_Witness ==
    /\ op = "substitute_bindings"
    /\ template.k = "Sym"
    /\ bnd.b[template.name] # Unbound
    /\ SymLeafNames(bnd.b[template.name]) \cap Keys(bnd.b) # {}
    /\ out = bnd.b[template.name]
    /\ substitute_bindings(bnd.b, out) # out

\* C16: when a pattern in which no functor name is also a Symbol leaf
\* matches a value, the bindings have exactly the pattern's Symbol leaf
\* names as keys, and substituting them into the pattern gives the value.
C16_MatchSoundness ==
    ( /\ op = "substitute_bindings"
      /\ template = head
      /\ bnd.some
      /\ bnd = pattern_match(head, subject)
      /\ FunctorNames(head) \cap SymLeafNames(head) = {} )
        => /\ Keys(bnd.b) = SymLeafNames(head)
           /\ out = subject

\* The bindings of a pattern with a functor and two Symbol leaves have been
\* substituted into it.
C16_Witness ==
    /\ op = "substitute_bindings"
    /\ template = head
    /\ bnd.some
    /\ bnd = pattern_match(head, subject)
    /\ FunctorNames(head) \cap SymLeafNames(head) = {}
    /\ Cardinality(SymLeafPositions(head)) >= 2
    /\ out = subject
    /\ out # head

\* C17: when the head matches no occurrence in the subject, apply_all
\* returns the subject and does not fail; so the result differs from the
\* subject only if the head matches some occurrence.
C17_NoMatchIdentity ==
    op = "apply_all"
        => /\ (\A p \in Positions(subject) : ~Matches(head, SubtermAt(subject, p)))
                => out = subject
           /\ out # subject
                => \E p \in Positions(subject) : Matches(head, SubtermAt(subject, p))

\* A subject with two different arguments, none of them matched.
C17_Witness ==
    /\ op = "apply_all"
    /\ \A p \in Positions(subject) : ~Matches(head, SubtermAt(subject, p))
    /\ Len(subject.args) = 2
    /\ subject.args[1] # subject.args[2]
    /\ out = subject

\* C18: the texts of the tokens, one after the other, are the consumed
\* characters without their whitespace; no text holds whitespace; every run
\* of alphanumeric characters is a token of its own; and an exhausted Lexer
\* has consumed the input up to its first invalid character, or all of it.
C18_NoCharacterLost ==
    /\ ConcatTexts(tokens) = StripWhitespace(Consumed)
    /\ \A i \in 1..Len(tokens) :
          \A j \in 1..Len(tokens[i].text) : ~is_whitespace(tokens[i].text[j])
    /\ Cardinality({i \in 1..Len(tokens) : tokens[i].kind \in WordKinds})
          = Runs(Consumed)
    /\ exhausted
          => Consumed = IF FirstInvalid(input) # 0
                        THEN SubSeq(input, 1, FirstInvalid(input))
                        ELSE input

\* Two words that whitespace separates have become two tokens.
C18_Witness ==
    /\ exhausted
    /\ Len(input) >= 3
    /\ is_alphanumeric(input[1])
    /\ is_whitespace(input[2])
    /\ is_alphanumeric(input[3])
    /\ Len(tokens) >= 3
    /\ tokens[1].text = <<input[1]>>

\* C19: a next() on a Lexer that is not exhausted returns a token, and
\* consumes a character or exhausts the Lexer; so a Lexer that is not
\* exhausted has returned no more tokens than it has consumed characters,
\* the call after the n-th character exhausts it, an input of n characters
\* yields at most n + 1 tokens, and the last token of an exhausted Lexer is
\* End or Invalid.
C19_FiniteStream ==
    /\ [][(~exhausted /\ op' = "next")
             => /\ Len(chars') < Len(chars) \/ exhausted'
                /\ Len(tokens') = Len(tokens) + 1
                /\ chars = <<>> => exhausted']_vars
    /\ [](~exhausted => Len(tokens) <= Len(input) - Len(chars))
    /\ [](Len(tokens) <= Len(input) + 1)
    /\ [](exhausted => Ended)

\* An input of n characters has yielded n + 1 tokens.
C19_Witness ==
    /\ exhausted
    /\ Len(input) >= 2
    /\ Len(tokens) = Len(input) + 1

\* C20: cnum is the number of characters consumed, lnum the number of
\* newlines among them, bol the position after the last of these, and so
\* 0 <= bol <= cnum: cnum - bol does not underflow.
C20_Counters ==
    /\ cnum = Len(input) - Len(chars)
    /\ lnum = NewlinesIn(Consumed)
    /\ bol = LastNewline(Consumed)
    /\ 0 <= bol /\ bol <= cnum
    /\ lexer_loc(TheLexer).col >= 0

\* A word has been read on a line that is not the first.
C20_Witness ==
    /\ op = "next"
    /\ ret.kind \in WordKinds
    /\ Len(ret.text) >= 2
    /\ lnum >= 1
    /\ bol >= 1
    /\ cnum > bol

====
